---- MODULE Spec2Model ----
(***************************************************************************)
(* State-machine model of two haystack components:                         *)
(*   - SentenceTransformersDocumentEmbedder                                *)
(*       (components/embedders/sentence_transformers_document_embedder.py) *)
(*   - PromptBuilder (components/builders/prompt_builder.py)               *)
(*                                                                         *)
(* Python strings are sequences of one-character strings, so that          *)
(* concatenation, join and str() are computed and not assumed.  Python     *)
(* values carry their type in a field ty.  A behaviour exercises one of    *)
(* the two components: they share no state.                                *)
(***************************************************************************)
EXTENDS Integers, Sequences, FiniteSets, TLC

VARIABLES
    inst,          \* embedder instances: "orig" (constructed) and "copy" (from_dict)
    docs,          \* the Document objects, by identity
    pb,            \* PromptBuilder instances: "orig" and "copy"
    saved,         \* the last dictionary produced by a to_dict call
    factoryCalls,  \* per embedder instance: invocations of the backend factory
    warmedUp,      \* per embedder instance: a warm_up call has returned normally
    last           \* the last call made and what the caller observed of it

vars == <<inst, docs, pb, saved, factoryCalls, warmedUp, last>>

(***************************************************************************)
(* Bounds of the exploration.                                              *)
(***************************************************************************)
MaxLen == 2            \* longest list handed to run
MaxFactoryCalls == 2   \* factory invocations explored per instance
MaxTpl == 3            \* longest template, in lexemes

Ids == {"orig", "copy"}

(***************************************************************************)
(* Python values.                                                          *)
(***************************************************************************)
NoneVal == [ty |-> "NoneType"]
PyStr(s) == [ty |-> "str", s |-> s]
PyInt(n) == [ty |-> "int", n |-> n]
PyList(xs) == [ty |-> "list", items |-> xs]
DocRef(d) == [ty |-> "Document", id |-> d]

NoInstance == [ty |-> "NoInstance"]
Absent == [ty |-> "absent"]          \* the attribute does not exist on the object

\* bool(v) for the values a Document's meta and an init parameter hold
Truthy(v) ==
    CASE v.ty = "NoneType" -> FALSE
      [] v.ty = "str" -> v.s # <<>>
      [] v.ty = "int" -> v.n # 0
      [] v.ty = "list" -> v.items # <<>>
      [] OTHER -> TRUE

Digit(n) == <<"0", "1", "2", "3", "4", "5", "6", "7", "8", "9">>[n + 1]

RECURSIVE Decimal(_)
Decimal(n) == IF n < 10 THEN <<Digit(n)>> ELSE Decimal(n \div 10) \o <<Digit(n % 10)>>

\* str(v)
StrOf(v) ==
    CASE v.ty = "str" -> v.s
      [] v.ty = "int" -> IF v.n < 0 THEN <<"-">> \o Decimal(-v.n) ELSE Decimal(v.n)
      [] OTHER -> <<"N", "o", "n", "e">>

\* sep.join(parts)
RECURSIVE Join(_, _)
Join(sep, parts) ==
    IF parts = <<>> THEN <<>>
    ELSE IF Len(parts) = 1 THEN parts[1]
    ELSE parts[1] \o sep \o Join(sep, Tail(parts))

(***************************************************************************)
(* The Documents of a behaviour.  content is a str or None, meta maps keys *)
(* to values, embedding is None until an embedder sets it.                 *)
(***************************************************************************)
DocIds == {1, 2}

NewDocument(content, meta) == [content |-> content, meta |-> meta, embedding |-> NoneVal]

InitialDocs ==
    (1 :> NewDocument(PyStr(<<"h", "i">>), [title |-> PyStr(<<"T">>), year |-> PyInt(0)]))
    @@ (2 :> NewDocument(NoneVal, [title |-> PyStr(<<>>), year |-> PyInt(17)]))

(***************************************************************************)
(* Secret (haystack.utils): an environment-variable reference.             *)
(***************************************************************************)
EnvVarSecret(names, strict) == [ty |-> "EnvVarSecret", env_vars |-> names, strict |-> strict]

SecretToDict(secret) ==
    [type |-> "env_var", env_vars |-> secret.env_vars, strict |-> secret.strict]

SecretFromDict(d) == EnvVarSecret(d.env_vars, d.strict)

DefaultToken == EnvVarSecret(<<"HF_API_TOKEN">>, FALSE)

(***************************************************************************)
(* SentenceTransformersDocumentEmbedder.__init__                           *)
(***************************************************************************)
Cpu == <<"c", "p", "u">>
Cuda == <<"c", "u", "d", "a">>
Newline == <<"\n">>

DefaultArgs ==
    [model |-> "sentence-transformers/all-mpnet-base-v2",
     device |-> NoneVal,
     token |-> DefaultToken,
     prefix |-> <<>>,
     suffix |-> <<>>,
     batch_size |-> 32,
     progress_bar |-> TRUE,
     normalize_embeddings |-> FALSE,
     meta_fields_to_embed |-> NoneVal,
     embedding_separator |-> Newline]

\* the constructor calls explored
CtorArgs ==
    { DefaultArgs,
      [DefaultArgs EXCEPT !.prefix = <<"Q", ":">>, !.suffix = <<"/", "Q">>,
                          !.meta_fields_to_embed = PyList(<<"title">>),
                          !.device = PyStr(Cuda), !.token = NoneVal],
      [DefaultArgs EXCEPT !.model = "BAAI/bge-small-en", !.prefix = <<"Q">>,
                          !.meta_fields_to_embed = PyList(<<"year", "title">>),
                          !.embedding_separator = <<>>, !.batch_size = 8,
                          !.normalize_embeddings = TRUE],
      [DefaultArgs EXCEPT !.suffix = <<"Z">>, !.device = PyStr(<<>>),
                          !.meta_fields_to_embed = PyList(<<"title", "year", "author">>),
                          !.embedding_separator = <<"|">>, !.progress_bar = FALSE,
                          !.token = EnvVarSecret(<<"HF_TOKEN">>, TRUE)] }

\* _SentenceTransformersEmbeddingBackendFactory.get_embedding_backend, when it
\* returns: the handle of the backend for (model, device, auth_token)
get_embedding_backend(model, device, auth_token) ==
    [ty |-> "backend", model |-> model, device |-> device, auth_token |-> auth_token]

\* variant: the constructor loads the backend
EmbedderInitEager(args) ==
    [ty |-> "SentenceTransformersDocumentEmbedder",
     model |-> args.model,
     device |-> IF Truthy(args.device) THEN args.device ELSE PyStr(Cpu),
     token |-> args.token,
     prefix |-> args.prefix,
     suffix |-> args.suffix,
     batch_size |-> args.batch_size,
     progress_bar |-> args.progress_bar,
     normalize_embeddings |-> args.normalize_embeddings,
     meta_fields_to_embed |->
         IF Truthy(args.meta_fields_to_embed) THEN args.meta_fields_to_embed.items ELSE <<>>,
     embedding_separator |-> args.embedding_separator,
     embedding_backend |->
         get_embedding_backend(args.model,
                               IF Truthy(args.device) THEN args.device ELSE PyStr(Cpu),
                               args.token)]

EmbedderInit(args) ==
    [ty |-> "SentenceTransformersDocumentEmbedder",
     model |-> args.model,
     device |-> IF Truthy(args.device) THEN args.device ELSE PyStr(Cpu),
     token |-> args.token,
     prefix |-> args.prefix,
     suffix |-> args.suffix,
     batch_size |-> args.batch_size,
     progress_bar |-> args.progress_bar,
     normalize_embeddings |-> args.normalize_embeddings,
     meta_fields_to_embed |->
         IF Truthy(args.meta_fields_to_embed) THEN args.meta_fields_to_embed.items ELSE <<>>,
     embedding_separator |-> args.embedding_separator,
     embedding_backend |-> Absent]

HasBackend(self) == self.embedding_backend # Absent

\* the stored init parameters of an instance
Config(self) == [f \in (DOMAIN self) \ {"embedding_backend"} |-> self[f]]

(***************************************************************************)
(* The embedding backend (backends/sentence_transformers_backend.py): the  *)
(* factory returns a handle for (model, device, auth_token) or raises; the *)
(* handle's embed returns one fixed-length vector per text, in order, and  *)
(* is a function of the text.  A fault of the backend shows while a batch  *)
(* is encoded: an empty list of texts runs no batch.                       *)
(***************************************************************************)
Alphabet ==
    <<"h", "i", "T", "Q", ":", "/", "Z", "|", "\n", "b", "N", "o", "n", "e", "-",
      "0", "1", "2", "3", "4", "5", "6", "7", "8", "9">>

Code(c) == CHOOSE i \in 1..Len(Alphabet) : Alphabet[i] = c

RECURSIVE Checksum(_, _)
Checksum(text, i) ==
    IF i > Len(text) THEN 0 ELSE (i * Code(text[i]) + Checksum(text, i + 1)) % 97

Vector(backend, text, normalize) ==
    <<Len(text) + (IF backend.model = DefaultArgs.model THEN 0 ELSE 1),
      Checksum(text, 1),
      IF normalize THEN 1 ELSE 0>>

BackendRaises(texts, fault) == fault /\ texts # <<>>

embed(backend, texts, batch_size, show_progress_bar, normalize_embeddings) ==
    [k \in 1..Len(texts) |-> Vector(backend, texts[k], normalize_embeddings)]

(***************************************************************************)
(* SentenceTransformersDocumentEmbedder.warm_up                            *)
(***************************************************************************)
\* variant: warm_up asks the factory whether or not a handle exists
NeedsBackendAlways(self) == TRUE

\* the guard of warm_up: the factory is asked only when the attribute is missing
NeedsBackend(self) == ~HasBackend(self)

\* the instance after warm_up, the factory having returned (ok) or raised
warm_up(self, ok) ==
    IF NeedsBackend(self) /\ ok
    THEN [self EXCEPT !.embedding_backend =
              get_embedding_backend(self.model, self.device, self.token)]
    ELSE self

(***************************************************************************)
(* SentenceTransformersDocumentEmbedder.run                                *)
(***************************************************************************)
IsDocument(item) == item.ty = "Document"

\* line 119: the input-shape test
ShapeError(documents) ==
    documents.ty # "list"
    \/ (documents.items # <<>> /\ ~IsDocument(documents.items[1]))

\* variant: every configured field the meta holds is embedded, falsy or not
MetaValuesPresent(self, doc) ==
    LET keys == SelectSeq(self.meta_fields_to_embed, LAMBDA key : key \in DOMAIN doc.meta)
    IN  [k \in 1..Len(keys) |-> StrOf(doc.meta[keys[k]])]

\* lines 131-133: the values of the configured meta fields that are embedded
MetaValuesToEmbed(self, doc) ==
    LET keys == SelectSeq(self.meta_fields_to_embed,
                          LAMBDA key : key \in DOMAIN doc.meta /\ Truthy(doc.meta[key]))
    IN  [k \in 1..Len(keys) |-> StrOf(doc.meta[keys[k]])]

\* doc.content or ""
ContentOrEmpty(doc) == IF Truthy(doc.content) THEN doc.content.s ELSE <<>>

\* lines 134-136
TextToEmbed(self, doc) ==
    self.prefix
    \o Join(self.embedding_separator, MetaValuesToEmbed(self, doc) \o <<ContentOrEmpty(doc)>>)
    \o self.suffix

\* lines 129-137: the loop raises AttributeError at an item without meta/content
TextsToEmbed(self, heap, items) ==
    IF \E k \in 1..Len(items) : ~IsDocument(items[k])
    THEN [kind |-> "AttributeError", texts |-> <<>>]
    ELSE [kind |-> "ok",
          texts |-> [k \in 1..Len(items) |-> TextToEmbed(self, heap[items[k].id])]]

Min(a, b) == IF a < b THEN a ELSE b

\* variant: the vectors are handed out from the end of the list
RECURSIVE AssignEmbeddingsReversed(_, _, _, _)
AssignEmbeddingsReversed(heap, items, embeddings, k) ==
    IF k > Min(Len(items), Len(embeddings)) THEN heap
    ELSE AssignEmbeddingsReversed(
             [heap EXCEPT ![items[k].id].embedding =
                  PyList(embeddings[Len(embeddings) + 1 - k])],
             items, embeddings, k + 1)

\* variant: a vector is appended to the embedding a Document already has
RECURSIVE AssignEmbeddingsExtend(_, _, _, _)
AssignEmbeddingsExtend(heap, items, embeddings, k) ==
    IF k > Min(Len(items), Len(embeddings)) THEN heap
    ELSE LET old == heap[items[k].id].embedding IN
         AssignEmbeddingsExtend(
             [heap EXCEPT ![items[k].id].embedding =
                  IF old = NoneVal THEN PyList(embeddings[k])
                  ELSE PyList(old.items \o embeddings[k])],
             items, embeddings, k + 1)

\* lines 146-147: for doc, emb in zip(documents, embeddings): doc.embedding = emb
RECURSIVE AssignEmbeddings(_, _, _, _)
AssignEmbeddings(heap, items, embeddings, k) ==
    IF k > Min(Len(items), Len(embeddings)) THEN heap
    ELSE AssignEmbeddings(
             [heap EXCEPT ![items[k].id].embedding = PyList(embeddings[k])],
             items, embeddings, k + 1)

\* variant: one backend call and one assignment per Document, so that a fault
\* on the last text comes after the Documents before it were assigned
EmbedAndAssignPerDocument(self, heap, items, texts, fault) ==
    LET embeddings == embed(self.embedding_backend, texts, self.batch_size,
                            self.progress_bar, self.normalize_embeddings)
    IN  IF BackendRaises(texts, fault)
        THEN [kind |-> "BackendError", embeddings |-> <<>>,
              heap |-> AssignEmbeddings(heap, items,
                                        SubSeq(embeddings, 1, Len(embeddings) - 1), 1)]
        ELSE [kind |-> "ok", embeddings |-> embeddings,
              heap |-> AssignEmbeddings(heap, items, embeddings, 1)]

\* lines 139-147: one backend call for the whole batch, then the assignments
EmbedAndAssign(self, heap, items, texts, fault) ==
    IF BackendRaises(texts, fault)
    THEN [kind |-> "BackendError", embeddings |-> <<>>, heap |-> heap]
    ELSE LET embeddings == embed(self.embedding_backend, texts, self.batch_size,
                                 self.progress_bar, self.normalize_embeddings)
         IN  [kind |-> "ok", embeddings |-> embeddings,
              heap |-> AssignEmbeddings(heap, items, embeddings, 1)]

Raised(kind, heap) ==
    [kind |-> kind, called |-> FALSE, texts |-> <<>>, embeddings |-> <<>>,
     returned |-> NoneVal, heap |-> heap]

\* run(documents) on self with the Documents in heap: what is raised or
\* returned, what the backend was handed and returned, and the Documents after
run(self, heap, documents, fault) ==
    IF ShapeError(documents) THEN Raised("TypeError", heap)
    ELSE IF ~HasBackend(self) THEN Raised("RuntimeError", heap)
    ELSE LET built == TextsToEmbed(self, heap, documents.items) IN
         IF built.kind # "ok" THEN Raised(built.kind, heap)
         ELSE LET done == EmbedAndAssign(self, heap, documents.items, built.texts, fault) IN
              [kind |-> done.kind, called |-> TRUE, texts |-> built.texts,
               embeddings |-> done.embeddings,
               returned |-> IF done.kind = "ok" THEN documents ELSE NoneVal,
               heap |-> done.heap]

(***************************************************************************)
(* to_dict / from_dict of the embedder, with default_to_dict,              *)
(* default_from_dict and deserialize_secrets_inplace of haystack.          *)
(***************************************************************************)
EmbedderType == "SentenceTransformersDocumentEmbedder"

default_to_dict(type, init_parameters) ==
    [type |-> type, init_parameters |-> init_parameters]

\* variant: the suffix is written from the prefix
to_dict_suffix_from_prefix(self) ==
    default_to_dict(EmbedderType,
        [model |-> self.model,
         device |-> self.device,
         token |-> IF Truthy(self.token) THEN SecretToDict(self.token) ELSE NoneVal,
         prefix |-> self.prefix,
         suffix |-> self.prefix,
         batch_size |-> self.batch_size,
         progress_bar |-> self.progress_bar,
         normalize_embeddings |-> self.normalize_embeddings,
         meta_fields_to_embed |-> PyList(self.meta_fields_to_embed),
         embedding_separator |-> self.embedding_separator])

to_dict(self) ==
    default_to_dict(EmbedderType,
        [model |-> self.model,
         device |-> self.device,
         token |-> IF Truthy(self.token) THEN SecretToDict(self.token) ELSE NoneVal,
         prefix |-> self.prefix,
         suffix |-> self.suffix,
         batch_size |-> self.batch_size,
         progress_bar |-> self.progress_bar,
         normalize_embeddings |-> self.normalize_embeddings,
         meta_fields_to_embed |-> PyList(self.meta_fields_to_embed),
         embedding_separator |-> self.embedding_separator])

deserialize_secrets_inplace(params, key) ==
    IF key \in DOMAIN params /\ params[key] # NoneVal
    THEN [params EXCEPT ![key] = SecretFromDict(params[key])]
    ELSE params

from_dict(data) ==
    EmbedderInit(deserialize_secrets_inplace(data.init_parameters, "token"))

(***************************************************************************)
(* The inputs handed to run.                                               *)
(***************************************************************************)
Items == {DocRef(d) : d \in DocIds} \cup {PyStr(<<"b">>)}

RECURSIVE SeqsUpTo(_, _)
SeqsUpTo(S, n) ==
    IF n = 0 THEN {<<>>}
    ELSE LET shorter == SeqsUpTo(S, n - 1)
         IN  shorter \cup {Append(s, x) : s \in {t \in shorter : Len(t) = n - 1}, x \in S}

RunInputs ==
    {PyList(xs) : xs \in SeqsUpTo(Items, MaxLen)} \cup {PyStr(<<"b">>), DocRef(1)}

(***************************************************************************)
(* PromptBuilder.  A template string is a sequence of lexemes: literal     *)
(* text, or a reference {{ name }} to a variable.  jinja2 parses it into   *)
(* output nodes, finds the names looked up in the context, and renders an  *)
(* undefined name as the empty string.                                     *)
(***************************************************************************)
Lexemes == {"a", "{{x}}", "{{y}}"}

Templates == SeqsUpTo(Lexemes, MaxTpl)

\* jinja2: Environment.parse
ParseLexeme(lx) ==
    CASE lx = "{{x}}" -> [node |-> "Name", name |-> "x"]
      [] lx = "{{y}}" -> [node |-> "Name", name |-> "y"]
      [] OTHER -> [node |-> "TemplateData", data |-> <<lx>>]

Parse(source) == [k \in 1..Len(source) |-> ParseLexeme(source[k])]

\* jinja2.meta.find_undeclared_variables
RECURSIVE find_undeclared_variables(_)
find_undeclared_variables(ast) ==
    IF ast = <<>> THEN {}
    ELSE (IF Head(ast).node = "Name" THEN {Head(ast).name} ELSE {})
         \cup find_undeclared_variables(Tail(ast))

\* component.set_input_type(self, var, Any, "") for each var
RegisterInputs(template_variables) ==
    [var \in template_variables |-> [name |-> var, type |-> "Any", default |-> <<>>]]

PromptBuilderInit(template) ==
    LET ast == Parse(template) IN
    [ty |-> "PromptBuilder",
     template_string |-> template,
     template |-> ast,
     inputs |-> RegisterInputs(find_undeclared_variables(ast))]

\* jinja2: Template.render(kwargs)
RECURSIVE Render(_, _)
Render(ast, kwargs) ==
    IF ast = <<>> THEN <<>>
    ELSE LET n == Head(ast) IN
         (IF n.node = "TemplateData" THEN n.data
          ELSE IF n.name \in DOMAIN kwargs THEN StrOf(kwargs[n.name]) ELSE <<>>)
         \o Render(Tail(ast), kwargs)

\* variant: run declares an input for every name it is given
pb_run_declares(self, kwargs) ==
    [self |-> [self EXCEPT !.inputs = RegisterInputs(DOMAIN self.inputs \cup DOMAIN kwargs)],
     result |-> [prompt |-> Render(self.template, kwargs)]]

\* PromptBuilder.run(**kwargs): the instance after the call and the result
pb_run(self, kwargs) ==
    [self |-> self, result |-> [prompt |-> Render(self.template, kwargs)]]

PromptBuilderType == "PromptBuilder"

pb_to_dict(self) ==
    default_to_dict(PromptBuilderType, [template |-> self.template_string])

\* default_from_dict: cls(**init_parameters)
pb_from_dict(data) == PromptBuilderInit(data.init_parameters.template)

KwargNames == {"x", "y"}
KwargValues == {PyStr(<<"s">>), PyInt(3)}
Kwargs == UNION {[names -> KwargValues] : names \in SUBSET KwargNames}

(***************************************************************************)
(* The state machine.                                                      *)
(***************************************************************************)
Nobody == [i \in Ids |-> NoInstance]

\* an embedder has been constructed
InitEmbedder ==
    /\ \E args \in CtorArgs : inst = [Nobody EXCEPT !["orig"] = EmbedderInit(args)]
    /\ pb = Nobody
    /\ last = [op |-> "__init__", inst |-> "orig", kind |-> "ok"]

\* a PromptBuilder has been constructed
InitBuilder ==
    /\ \E template \in Templates :
           pb = [Nobody EXCEPT !["orig"] = PromptBuilderInit(template)]
    /\ inst = Nobody
    /\ last = [op |-> "pb.__init__", inst |-> "orig", kind |-> "ok"]

InitShared ==
    /\ docs = InitialDocs
    /\ saved = NoneVal
    /\ factoryCalls = [i \in Ids |-> 0]
    /\ warmedUp = [i \in Ids |-> FALSE]

\* warm_up() on embedder i; ok: the factory, if asked, returns a handle
WarmUp(i, ok) ==
    /\ inst[i] # NoInstance
    /\ NeedsBackend(inst[i]) => factoryCalls[i] < MaxFactoryCalls
    /\ LET invoked == NeedsBackend(inst[i]) IN
       /\ inst' = [inst EXCEPT ![i] = warm_up(inst[i], ok)]
       /\ factoryCalls' = [factoryCalls EXCEPT ![i] = IF invoked THEN @ + 1 ELSE @]
       /\ warmedUp' = [warmedUp EXCEPT ![i] = @ \/ ~invoked \/ ok]
       /\ last' = [op |-> "warm_up", inst |-> i, invoked |-> invoked,
                   kind |-> IF invoked /\ ~ok THEN "BackendError" ELSE "ok"]
    /\ UNCHANGED <<docs, pb, saved>>

\* what the call before this one observed, when it was a successful run of the
\* same instance on the same documents
PreviousRun(i, documents) ==
    IF last.op = "run" /\ last.kind = "ok" /\ last.inst = i /\ last.input = documents
    THEN [ty |-> "run", texts |-> last.texts, embeddings |-> last.embeddings]
    ELSE NoneVal

\* run(documents) on embedder i; fault: the backend call of this run fails
Run(i, documents, fault) ==
    /\ inst[i] # NoInstance
    /\ LET r == run(inst[i], docs, documents, fault) IN
       /\ fault => r.kind = "BackendError"
       /\ docs' = r.heap
       /\ last' = [op |-> "run", inst |-> i, input |-> documents,
                   ready |-> HasBackend(inst[i]), kind |-> r.kind, called |-> r.called,
                   texts |-> r.texts, embeddings |-> r.embeddings, returned |-> r.returned,
                   prev |-> PreviousRun(i, documents)]
    /\ UNCHANGED <<inst, pb, saved, factoryCalls, warmedUp>>

\* to_dict() on embedder i
ToDict(i) ==
    /\ inst[i] # NoInstance
    /\ saved' = to_dict(inst[i])
    /\ last' = [op |-> "to_dict", inst |-> i, kind |-> "ok"]
    /\ UNCHANGED <<inst, docs, pb, factoryCalls, warmedUp>>

\* SentenceTransformersDocumentEmbedder.from_dict(saved)
FromDict ==
    /\ saved # NoneVal
    /\ saved.type = EmbedderType
    /\ inst["copy"] = NoInstance
    /\ inst' = [inst EXCEPT !["copy"] = from_dict(saved)]
    /\ last' = [op |-> "from_dict", inst |-> "copy", kind |-> "ok"]
    /\ UNCHANGED <<docs, pb, saved, factoryCalls, warmedUp>>

\* run(**kwargs) on PromptBuilder i
PBRun(i, kwargs) ==
    /\ pb[i] # NoInstance
    /\ LET r == pb_run(pb[i], kwargs) IN
       /\ pb' = [pb EXCEPT ![i] = r.self]
       /\ last' = [op |-> "pb.run", inst |-> i, kwargs |-> kwargs, kind |-> "ok",
                   result |-> r.result]
    /\ UNCHANGED <<inst, docs, saved, factoryCalls, warmedUp>>

\* to_dict() on PromptBuilder i
PBToDict(i) ==
    /\ pb[i] # NoInstance
    /\ saved' = pb_to_dict(pb[i])
    /\ last' = [op |-> "pb.to_dict", inst |-> i, kind |-> "ok"]
    /\ UNCHANGED <<inst, docs, pb, factoryCalls, warmedUp>>

\* default_from_dict(PromptBuilder, saved)
PBFromDict ==
    /\ saved # NoneVal
    /\ saved.type = PromptBuilderType
    /\ pb["copy"] = NoInstance
    /\ pb' = [pb EXCEPT !["copy"] = pb_from_dict(saved)]
    /\ last' = [op |-> "pb.from_dict", inst |-> "copy", kind |-> "ok"]
    /\ UNCHANGED <<inst, docs, saved, factoryCalls, warmedUp>>

(***************************************************************************)
(* Spec: the life of one embedder, warm_up and run in any order, with the  *)
(* factory and the backend free to fail.                                   *)
(***************************************************************************)
Init == InitShared /\ InitEmbedder

Next ==
    \/ \E ok \in BOOLEAN : WarmUp("orig", ok)
    \/ \E documents \in RunInputs, fault \in BOOLEAN : Run("orig", documents, fault)

Spec == Init /\ [][Next]_vars

(***************************************************************************)
(* SpecComponents: either component, serialized and rebuilt at any point,  *)
(* the original and the rebuilt instance then used side by side.           *)
(***************************************************************************)
ShortInputs == {documents \in RunInputs : documents.ty = "list" => Len(documents.items) <= 1}

InitComponents == InitShared /\ (InitEmbedder \/ InitBuilder)

NextComponents ==
    \/ \E i \in Ids, ok \in BOOLEAN : WarmUp(i, ok)
    \/ \E i \in Ids, documents \in ShortInputs, fault \in BOOLEAN : Run(i, documents, fault)
    \/ \E i \in Ids : ToDict(i)
    \/ FromDict
    \/ \E i \in Ids, kwargs \in Kwargs : PBRun(i, kwargs)
    \/ \E i \in Ids : PBToDict(i)
    \/ PBFromDict

SpecComponents == InitComponents /\ [][NextComponents]_vars

(***************************************************************************)
(* Properties.                                                             *)
(***************************************************************************)
AllDocuments(documents) ==
    documents.ty = "list" /\ \A k \in 1..Len(documents.items) : IsDocument(documents.items[k])

NonEmptyDocumentList(documents) == AllDocuments(documents) /\ documents.items # <<>>

EmptyList(documents) == documents = PyList(<<>>)

Errors == {"TypeError", "RuntimeError", "BackendError"}

\* C1: run with a non-empty list of Documents, on an embedder whose warm_up
\* has never succeeded, raises RuntimeError, does not call the backend and
\* returns nothing, however often it is retried.
C1_NotReadyUntilWarmUp ==
    (last.op = "run" /\ ~warmedUp[last.inst] /\ NonEmptyDocumentList(last.input))
        => (last.kind = "RuntimeError" /\ ~last.called /\ last.returned = NoneVal)

\* a run on Documents after a warm_up that failed
C1_Witness ==
    /\ last.op = "run" /\ NonEmptyDocumentList(last.input)
    /\ ~warmedUp["orig"] /\ factoryCalls["orig"] > 0
    /\ last.kind = "RuntimeError"

\* C2 as stated: the handle is absent until warm_up creates it, and the
\* factory is invoked at most once over the life of the instance.
C2_FactoryInvokedAtMostOnce ==
    /\ factoryCalls["orig"] = 0 => ~HasBackend(inst["orig"])
    /\ factoryCalls["orig"] <= 1

\* C2 amended: the handle is absent after construction; only a warm_up whose
\* factory call returns creates it; once it is present no warm_up or run
\* invokes the factory, replaces the handle or removes it.  (A warm_up whose
\* factory call raised leaves it absent, and the next one asks again.)
C2_HandleWriteOnce ==
    /\ [](factoryCalls["orig"] = 0 => ~HasBackend(inst["orig"]))
    /\ [][ /\ HasBackend(inst["orig"]) =>
                /\ inst'["orig"].embedding_backend = inst["orig"].embedding_backend
                /\ factoryCalls'["orig"] = factoryCalls["orig"]
           /\ (~HasBackend(inst["orig"]) /\ HasBackend(inst'["orig"])) =>
                /\ last'.op = "warm_up"
                /\ factoryCalls'["orig"] = factoryCalls["orig"] + 1 ]_vars

\* a warm_up that found the handle and did nothing, after a failed and a
\* successful one
C2_Witness ==
    /\ last.op = "warm_up" /\ ~last.invoked
    /\ HasBackend(inst["orig"]) /\ factoryCalls["orig"] = 2

\* C3: run raises TypeError whenever documents is not a list of Documents
\* only, a list with a Document first and a string later included.
C3_TypeErrorUnlessAllDocuments ==
    (last.op = "run" /\ ~AllDocuments(last.input)) => last.kind = "TypeError"

\* C4: a successful run returns the list it was given, and the embedding of
\* its k-th Document is the k-th vector the backend returned, which is the
\* backend's vector for the k-th text.
C4_SameListSameOrder ==
    (last.op = "run" /\ last.kind = "ok") =>
        LET items == last.input.items
            self == inst[last.inst]
        IN  /\ last.returned = last.input
            /\ Len(last.embeddings) = Len(items)
            /\ Len(last.texts) = Len(items)
            /\ \A k \in 1..Len(items) :
                   /\ docs[items[k].id].embedding = PyList(last.embeddings[k])
                   /\ last.embeddings[k] =
                          Vector(self.embedding_backend, last.texts[k], self.normalize_embeddings)

\* a successful run on two different Documents whose vectors differ
C4_Witness ==
    /\ last.op = "run" /\ last.kind = "ok"
    /\ Len(last.input.items) = 2
    /\ last.input.items[1] # last.input.items[2]
    /\ last.embeddings[1] # last.embeddings[2]

Falsy(v) == v = NoneVal \/ v = PyStr(<<>>) \/ v = PyInt(0)

RECURSIVE Spliced(_, _, _)
Spliced(fields, meta, sep) ==
    IF fields = <<>> THEN <<>>
    ELSE (IF Head(fields) \in DOMAIN meta /\ ~Falsy(meta[Head(fields)])
          THEN StrOf(meta[Head(fields)]) \o sep
          ELSE <<>>)
         \o Spliced(Tail(fields), meta, sep)

ExpectedText(self, doc) ==
    self.prefix
    \o Spliced(self.meta_fields_to_embed, doc.meta, self.embedding_separator)
    \o (IF doc.content = NoneVal THEN <<>> ELSE doc.content.s)
    \o self.suffix

\* C5: the text handed to the backend for a Document is the prefix, then each
\* configured meta field that is present with a non-falsy value, stringified
\* and followed by the separator, in configured order, then the content (or
\* nothing when it is unset), then the suffix.
C5_TextComposition ==
    (last.op = "run" /\ last.called) =>
        \A k \in 1..Len(last.input.items) :
            last.texts[k] = ExpectedText(inst[last.inst], docs[last.input.items[k].id])

\* texts were built for Documents with a falsy, an absent and a kept field
C5_Witness ==
    /\ last.op = "run" /\ last.called
    /\ inst["orig"].meta_fields_to_embed = <<"title", "year", "author">>
    /\ last.input = PyList(<<DocRef(1), DocRef(2)>>)
    /\ last.texts = << <<"T", "|", "h", "i", "Z">>, <<"1", "7", "|", "Z">> >>

Ref(name) == IF name = "x" THEN "{{x}}" ELSE "{{y}}"

FreeVariables(source) ==
    {name \in KwargNames : \E k \in 1..Len(source) : source[k] = Ref(name)}

SameRuns(a, b) ==
    \A documents \in RunInputs, fault \in BOOLEAN :
        run(a, docs, documents, fault) = run(b, docs, documents, fault)

SameRenders(a, b) ==
    /\ a.inputs = b.inputs
    /\ \A kwargs \in Kwargs : pb_run(a, kwargs).result = pb_run(b, kwargs).result

\* C7 as stated: the instance from_dict returns for the to_dict of an
\* instance, warmed up or not, answers every call as the original does.
C7_RoundTripIndistinguishable ==
    /\ last.op = "from_dict" => SameRuns(inst["copy"], inst["orig"])
    /\ last.op = "pb.from_dict" => SameRenders(pb["copy"], pb["orig"])

\* C7 amended: the rebuilt PromptBuilder declares the inputs and renders as
\* the original does.  The rebuilt embedder holds the init parameters of the
\* original and no backend handle: it answers run as the original does
\* whenever both are, or both are not, warmed up; rebuilt from a warmed-up
\* original it raises the not-ready error until its own warm_up.
C7_RoundTripOfConfiguration ==
    /\ inst["copy"] # NoInstance =>
          /\ Config(inst["copy"]) = Config(inst["orig"])
          /\ HasBackend(inst["copy"]) = HasBackend(inst["orig"])
                => SameRuns(inst["copy"], inst["orig"])
    /\ last.op = "from_dict" => ~HasBackend(inst["copy"])
    /\ pb["copy"] # NoInstance => SameRenders(pb["copy"], pb["orig"])

\* a run that succeeds on the copy of a warmed-up original, after the copy's
\* own warm_up
C7_Witness ==
    /\ last.op = "run" /\ last.inst = "copy" /\ last.kind = "ok"
    /\ last.input.items # <<>>
    /\ HasBackend(inst["orig"])

\* C8: a second run of a warmed-up embedder on the same Documents hands the
\* backend the texts of the first and leaves on every Document the embedding
\* the first run left.
C8_SecondRunSameEmbeddings ==
    (last.op = "run" /\ last.kind = "ok" /\ last.prev # NoneVal) =>
        /\ last.texts = last.prev.texts
        /\ last.embeddings = last.prev.embeddings
        /\ \A k \in 1..Len(last.input.items) :
               docs[last.input.items[k].id].embedding = PyList(last.prev.embeddings[k])

\* a second successful run on the same two Documents
C8_Witness ==
    /\ last.op = "run" /\ last.kind = "ok" /\ last.prev # NoneVal
    /\ Len(last.input.items) = 2

\* C9: the shape check comes before the readiness check and lets an empty
\* list through: not warmed up, an input that is not a list of Documents
\* raises TypeError and an empty list RuntimeError; warmed up, an empty list
\* returns an empty list.
C9_ShapeCheckedFirst ==
    last.op = "run" =>
        /\ (~last.ready /\ ~AllDocuments(last.input)) => last.kind = "TypeError"
        /\ (~last.ready /\ EmptyList(last.input)) => last.kind = "RuntimeError"
        /\ (last.ready /\ EmptyList(last.input)) =>
               (last.kind = "ok" /\ last.returned = PyList(<<>>))

\* C10: a run that raises TypeError, RuntimeError or the backend's error
\* leaves every Document, the configuration and the handle as they were.
C10_FailedRunChangesNothing ==
    [][(last'.op = "run" /\ last'.kind \in Errors) => (docs' = docs /\ inst' = inst)]_vars

\* the backend failed on a batch holding a Document that has no embedding
C10_Witness ==
    /\ last.op = "run" /\ last.kind = "BackendError"
    /\ Len(last.input.items) = 2
    /\ \E k \in 1..2 : docs[last.input.items[k].id].embedding = NoneVal

====
